---------------------------- MODULE Spec2Model ----------------------------
(***************************************************************************)
(* complex_rs: the generic value type Complex<T: Float> of src/lib.rs and  *)
(* its arithmetic, over an IEEE-754 binary floating-point element type.    *)
(*                                                                         *)
(* The element type T is modelled as a binary floating-point format with   *)
(* Prec significand bits, exponents -EminNeg .. Emax, gradual underflow,   *)
(* signed zeros, two infinities, one NaN and round-to-nearest-even.  f32   *)
(* is that format with (24, 127, 126), f64 with (53, 1023, 1022); the      *)
(* model runs the same rules at a width TLC can enumerate.                 *)
(*                                                                         *)
(* Every finite value of the format is a whole multiple of its least       *)
(* subnormal, 1/Unit.  A float is a record                                 *)
(*     [cls |-> "fin", sgn |-> s, n |-> k]   the value (-1)^s * k / Unit   *)
(*     [cls |-> "inf", sgn |-> s, n |-> 0]   +infinity (s=0), -infinity    *)
(*     [cls |-> "nan", sgn |-> 0, n |-> 0]   NaN                           *)
(* so 1.0 is Fin(0, Unit), -2.5 is Fin(1, 5 * Unit \div 2), and -0.0 is    *)
(* Fin(1, 0).  Lit(p, q) is the literal p/q rounded into the format.       *)
(***************************************************************************)
EXTENDS Integers, Sequences, FiniteSets, TLC

\* Significand bits of the element type (the hidden bit included).
Prec == 5
\* Largest exponent: the largest finite value is (2 - 2^(1-Prec)) * 2^Emax.
Emax == 5
\* The least normal value is 2^(-EminNeg).
EminNeg == 1
\* Longest chain of operations applied to one another's results.
MaxChain == 2

Pow2(k) == 2 ^ k

\* 1.0 in units of the least subnormal 2^(-EminNeg - Prec + 1).
Unit == Pow2(Prec - 1 + EminNeg)

\* The largest finite magnitude, in units.
MaxFiniteN == (Pow2(Prec) - 1) * Pow2(Emax + EminNeg)

-----------------------------------------------------------------------------
(* The element type: values *)

NaN == [cls |-> "nan", sgn |-> 0, n |-> 0]

Inf(s) == [cls |-> "inf", sgn |-> s, n |-> 0]

Fin(s, k) == [cls |-> "fin", sgn |-> s, n |-> k]

IsNaN(x) == x.cls = "nan"

IsInfinite(x) == x.cls = "inf"

IsFinite(x) == x.cls = "fin"

IsZero(x) == x.cls = "fin" /\ x.n = 0

Abs(k) == IF k < 0 THEN -k ELSE k

Xor(s, t) == (s + t) % 2

\* The magnitudes the format holds: at most Prec significant bits, at most
\* MaxFiniteN.
Representable(k) ==
    /\ k \in 0..MaxFiniteN
    /\ \E j \in 0..(Emax + EminNeg) : k % Pow2(j) = 0 /\ k \div Pow2(j) < Pow2(Prec)

\* Every value of the element type.
Floats ==
    {NaN, Inf(0), Inf(1)} \cup
    {Fin(s, k) : s \in {0, 1}, k \in {m \in 0..MaxFiniteN : Representable(m)}}

-----------------------------------------------------------------------------
(* The element type: rounding.  The exact magnitude is num/den units. *)

\* The least j with num/den < 2^(Prec + j): the result's ulp is 2^j units.
RECURSIVE UlpShift(_, _, _)
UlpShift(num, den, j) ==
    IF num \div (den * Pow2(j)) < Pow2(Prec) THEN j ELSE UlpShift(num, den, j + 1)

\* num/den rounded to Prec significant bits, ties to even, exponent unbounded.
RoundN(num, den) ==
    LET j == UlpShift(num, den, 0)
        d == den * Pow2(j)
        c == num \div d
        r == num % d
        up == 2 * r > d \/ (2 * r = d /\ c % 2 = 1)
    IN  (IF up THEN c + 1 ELSE c) * Pow2(j)

\* Round to nearest, ties to even; a rounded magnitude beyond the largest
\* finite value is an infinity.
Round(s, num, den) ==
    LET k == RoundN(num, den)
    IN  IF k > MaxFiniteN THEN Inf(s) ELSE Fin(s, k)

\* The literal p/q (q > 0) as the element type reads it.
Lit(p, q) == Round(IF p < 0 THEN 1 ELSE 0, Abs(p) * Unit, q)

-----------------------------------------------------------------------------
(* The element type: the operations of T the library uses *)

\* -x: the sign flips, also on zeros and infinities.
FNeg(x) == IF IsNaN(x) THEN NaN ELSE [x EXCEPT !.sgn = 1 - x.sgn]

\* x.abs(): the sign is cleared.
FAbs(x) == IF IsNaN(x) THEN NaN ELSE [x EXCEPT !.sgn = 0]

\* The finite value of x in units, signed.
Signed(x) == IF x.sgn = 1 THEN -x.n ELSE x.n

\* x + y.  Opposite infinities give NaN; an exact zero sum is +0 unless both
\* operands are negative.
FAdd(x, y) ==
    IF IsNaN(x) \/ IsNaN(y) THEN NaN
    ELSE IF IsInfinite(x) /\ IsInfinite(y)
         THEN (IF x.sgn = y.sgn THEN x ELSE NaN)
    ELSE IF IsInfinite(x) THEN x
    ELSE IF IsInfinite(y) THEN y
    ELSE LET k == Signed(x) + Signed(y)
         IN  IF k = 0
             THEN Fin(IF x.sgn = 1 /\ y.sgn = 1 THEN 1 ELSE 0, 0)
             ELSE Round(IF k < 0 THEN 1 ELSE 0, Abs(k), 1)

\* x - y is x + (-y).
FSub(x, y) == FAdd(x, FNeg(y))

\* x * y.  Zero times infinity is NaN; the sign is the exclusive or.
FMul(x, y) ==
    IF IsNaN(x) \/ IsNaN(y) THEN NaN
    ELSE IF (IsInfinite(x) /\ IsZero(y)) \/ (IsZero(x) /\ IsInfinite(y)) THEN NaN
    ELSE IF IsInfinite(x) \/ IsInfinite(y) THEN Inf(Xor(x.sgn, y.sgn))
    ELSE Round(Xor(x.sgn, y.sgn), x.n * y.n, Unit)

\* x / y.  0/0 and inf/inf are NaN; a nonzero value over zero is an infinity.
FDiv(x, y) ==
    IF IsNaN(x) \/ IsNaN(y) THEN NaN
    ELSE IF IsInfinite(x) /\ IsInfinite(y) THEN NaN
    ELSE IF IsZero(x) /\ IsZero(y) THEN NaN
    ELSE IF IsInfinite(x) \/ IsZero(y) THEN Inf(Xor(x.sgn, y.sgn))
    ELSE IF IsInfinite(y) THEN Fin(Xor(x.sgn, y.sgn), 0)
    ELSE Round(Xor(x.sgn, y.sgn), x.n * Unit, y.n)

\* The integer square root: the greatest c with c*c <= m.
RECURSIVE ISqrt(_, _)
ISqrt(m, c) == IF (c + 1) * (c + 1) > m THEN c ELSE ISqrt(m, c + 1)

\* The least j with sqrt(m) < 2^(Prec + j).
RECURSIVE SqrtShift(_, _)
SqrtShift(m, j) ==
    IF m < Pow2(2 * (Prec + j)) THEN j ELSE SqrtShift(m, j + 1)

\* sqrt(m) units rounded to Prec significant bits, ties to even.
SqrtN(m) ==
    LET j == SqrtShift(m, 0)
        c == ISqrt(m \div Pow2(2 * j), 0)
        \* sqrt(m) against the midpoint (c + 1/2) * 2^j
        mid == (2 * c + 1) * (2 * c + 1) * Pow2(2 * j)
        up == 4 * m > mid \/ (4 * m = mid /\ c % 2 = 1)
    IN  (IF up THEN c + 1 ELSE c) * Pow2(j)

\* x.sqrt(): NaN below zero; -0, +0 and +infinity are returned as they are.
FSqrt(x) ==
    IF IsNaN(x) THEN NaN
    ELSE IF IsZero(x) THEN x
    ELSE IF x.sgn = 1 THEN NaN
    ELSE IF IsInfinite(x) THEN x
    ELSE Fin(0, SqrtN(x.n * Unit))

\* x < y: false when either is NaN; -0 is not less than +0.
FLt(x, y) ==
    IF IsNaN(x) \/ IsNaN(y) THEN FALSE
    ELSE IF IsInfinite(x) THEN x.sgn = 1 /\ ~(IsInfinite(y) /\ y.sgn = 1)
    ELSE IF IsInfinite(y) THEN y.sgn = 0
    ELSE Signed(x) < Signed(y)

\* x == y: false when either is NaN; -0 equals +0.
FEq(x, y) ==
    IF IsNaN(x) \/ IsNaN(y) THEN FALSE
    ELSE IF IsInfinite(x) \/ IsInfinite(y) THEN x = y
    ELSE Signed(x) = Signed(y)

\* T::zero() and T::one().
FZero == Fin(0, 0)

FOne == Fin(0, Unit)

\* The digits after the decimal point of r/Unit, r < Unit.
RECURSIVE FracDigits(_)
FracDigits(r) ==
    IF r = 0 THEN ""
    ELSE ToString((r * 10) \div Unit) \o FracDigits((r * 10) % Unit)

\* "{}" of a float: the shortest decimal that reads back as the value, with
\* no exponent; "NaN", "inf", "-inf"; the sign of a negative zero is printed.
FmtFloat(x) ==
    IF IsNaN(x) THEN "NaN"
    ELSE IF IsInfinite(x) THEN (IF x.sgn = 1 THEN "-inf" ELSE "inf")
    ELSE (IF x.sgn = 1 THEN "-" ELSE "")
         \o ToString(x.n \div Unit)
         \o (IF x.n % Unit = 0 THEN "" ELSE "." \o FracDigits(x.n % Unit))

-----------------------------------------------------------------------------
(* Complex<T>: a pair of floats, and the operations of lib.rs *)

new(re, im) == [re |-> re, im |-> im]

\* conjugate with the wrong part negated.
conjugate_negates_re(z) == new(FNeg(z.re), z.im)

conjugate(z) == new(z.re, FNeg(z.im))

\* norm without its square root.
norm_without_sqrt(z) == FAdd(FMul(z.re, z.re), FMul(z.im, z.im))

norm(z) == FSqrt(FAdd(FMul(z.re, z.re), FMul(z.im, z.im)))

\* magnitude_squared with the sign of z*z's real part.
magnitude_squared_minus(z) == FSub(FMul(z.re, z.re), FMul(z.im, z.im))

magnitude_squared(z) == FAdd(FMul(z.re, z.re), FMul(z.im, z.im))

zero == new(FZero, FZero)

one == new(FOne, FZero)

i == new(FZero, FOne)

\* add with the imaginary parts subtracted, as in sub.
add_subtracts_im(self, rhs) == new(FAdd(self.re, rhs.re), FSub(self.im, rhs.im))

add(self, rhs) == new(FAdd(self.re, rhs.re), FAdd(self.im, rhs.im))

sub(self, rhs) == new(FSub(self.re, rhs.re), FSub(self.im, rhs.im))

\* mul with the sign of the real part's second product lost.
mul_plus_in_re(self, rhs) ==
    new(FAdd(FMul(self.re, rhs.re), FMul(self.im, rhs.im)),
        FAdd(FMul(self.re, rhs.im), FMul(self.im, rhs.re)))

mul(self, rhs) ==
    new(FSub(FMul(self.re, rhs.re), FMul(self.im, rhs.im)),
        FAdd(FMul(self.re, rhs.im), FMul(self.im, rhs.re)))

\* div with the imaginary numerator's terms swapped.
div_im_swapped(self, rhs) ==
    LET denom == magnitude_squared(rhs)
        re == FDiv(FAdd(FMul(self.re, rhs.re), FMul(self.im, rhs.im)), denom)
        im == FDiv(FSub(FMul(self.re, rhs.im), FMul(self.im, rhs.re)), denom)
    IN  new(re, im)

\* div that answers zero() for a zero denominator.
div_guards_zero(self, rhs) ==
    LET denom == magnitude_squared(rhs)
        re == FDiv(FAdd(FMul(self.re, rhs.re), FMul(self.im, rhs.im)), denom)
        im == FDiv(FSub(FMul(self.im, rhs.re), FMul(self.re, rhs.im)), denom)
    IN  IF IsZero(denom) THEN zero ELSE new(re, im)

div(self, rhs) ==
    LET denom == magnitude_squared(rhs)
        re == FDiv(FAdd(FMul(self.re, rhs.re), FMul(self.im, rhs.im)), denom)
        im == FDiv(FSub(FMul(self.im, rhs.re), FMul(self.re, rhs.im)), denom)
    IN  new(re, im)

\* neg that leaves the imaginary part.
neg_re_only(self) == new(FNeg(self.re), self.im)

neg(self) == new(FNeg(self.re), FNeg(self.im))

\* Scalar multiplication that leaves the imaginary part.
mul_scalar_re_only(self, rhs) == new(FMul(self.re, rhs), self.im)

\* Mul<T> for Complex<T>: complex times scalar.
mul_scalar(self, rhs) == new(FMul(self.re, rhs), FMul(self.im, rhs))

\* Display choosing '+' by 0 < im, so that zeros and NaN take the '-'.
fmt_plus_when_positive(self) ==
    LET abs_im == FAbs(self.im)
    IN  IF FLt(FZero, self.im)
        THEN FmtFloat(self.re) \o " + " \o FmtFloat(abs_im) \o "i"
        ELSE FmtFloat(self.re) \o " - " \o FmtFloat(abs_im) \o "i"

\* Display: the real part, a separator chosen by im < 0, |im|, "i".
fmt(self) ==
    LET abs_im == FAbs(self.im)
    IN  IF FLt(self.im, FZero)
        THEN FmtFloat(self.re) \o " - " \o FmtFloat(abs_im) \o "i"
        ELSE FmtFloat(self.re) \o " + " \o FmtFloat(abs_im) \o "i"

\* PartialEq, derived: both fields equal as floats.
eq(a, b) == FEq(a.re, b.re) /\ FEq(a.im, b.im)

\* The complex number p + q i of whole parts.
C(p, q) == new(Lit(p, 1), Lit(q, 1))

-----------------------------------------------------------------------------
(* A caller: it applies an operation to operands it constructs, then       *)
(* operations to the results, and keeps the last two calls.                *)

VARIABLES cur, prev, depth

vars == <<cur, prev, depth>>

\* One call: the operation, its operands (rhs for a binary operation, s for
\* the scalar of z * s), and what it returned: a Complex (res), a float
\* (val) or a text.
Call(op, lhs, rhs, s, res, val, text) ==
    [op |-> op, lhs |-> lhs, rhs |-> rhs, s |-> s,
     res |-> res, val |-> val, text |-> text]

NoCall == Call("none", zero, zero, FZero, zero, FZero, "")

\* The operations that return a Complex.
ComplexOps == {"add", "sub", "mul", "div", "neg", "conjugate", "mul_scalar"}

\* Left operands the caller constructs.
Left ==
    { C(2, 3), C(5, 1), C(1, 2), C(1, -2), C(1, 0), C(3, 4), C(3, -4), C(1, 1),
      C(8, 8), C(32, 1),
      new(FOne, Fin(1, 0)), new(FOne, NaN), new(Lit(5, 2), Lit(-7, 1)),
      new(Inf(1), Lit(1, 8)), new(Lit(-3, 4), FZero) }

\* Right operands the caller constructs.
Right ==
    { zero, one, i, C(1, -1), C(8, 8), C(32, 0), new(Lit(1, 8), FZero),
      new(Lit(3, 2), Lit(-1, 2)) }

\* Operands the caller brings to a result.
Third == { C(-32, 0), C(2, -1) }

\* Scalars the caller constructs.
Scalars == { Lit(2, 1), Lit(-1, 2), FZero, Fin(1, 0), Lit(31, 1) }

\* The first call of a run takes constructed operands; a later call takes
\* the last result, which must be a Complex.
Chainable == depth = 0 \/ (cur.op \in ComplexOps /\ depth < MaxChain)

\* The operand pairs of a binary call: constructed ones at first; then the
\* last result with the last right operand, with a new operand, or under the
\* last left operand.
Pairs ==
    IF depth = 0
    THEN Left \X Right
    ELSE {<<cur.res, cur.rhs>>, <<cur.lhs, cur.res>>} \cup {<<cur.res, y>> : y \in Third}

\* The operand of a unary call.
Single == IF depth = 0 THEN Left ELSE {cur.res}

Record(call) ==
    /\ Chainable
    /\ cur' = call
    /\ prev' = cur
    /\ depth' = depth + 1

Init == cur = NoCall /\ prev = NoCall /\ depth = 0

Add ==
    \E p \in Pairs :
        Record(Call("add", p[1], p[2], FZero, add(p[1], p[2]), FZero, ""))

Sub ==
    \E p \in Pairs :
        Record(Call("sub", p[1], p[2], FZero, sub(p[1], p[2]), FZero, ""))

Mul ==
    \E p \in Pairs :
        Record(Call("mul", p[1], p[2], FZero, mul(p[1], p[2]), FZero, ""))

Div ==
    \E p \in Pairs :
        Record(Call("div", p[1], p[2], FZero, div(p[1], p[2]), FZero, ""))

Neg ==
    \E z \in Single :
        Record(Call("neg", z, zero, FZero, neg(z), FZero, ""))

Conjugate ==
    \E z \in Single :
        Record(Call("conjugate", z, zero, FZero, conjugate(z), FZero, ""))

MulScalar ==
    \E z \in Single : \E s \in Scalars :
        Record(Call("mul_scalar", z, zero, s, mul_scalar(z, s), FZero, ""))

Norm ==
    \E z \in Single :
        Record(Call("norm", z, zero, FZero, zero, norm(z), ""))

MagnitudeSquared ==
    \E z \in Single :
        Record(Call("magnitude_squared", z, zero, FZero, zero, magnitude_squared(z), ""))

Display ==
    \E z \in Single :
        Record(Call("fmt", z, zero, FZero, zero, FZero, fmt(z)))

Next ==
    \/ Add
    \/ Sub
    \/ Mul
    \/ Div
    \/ Neg
    \/ Conjugate
    \/ MulScalar
    \/ Norm
    \/ MagnitudeSquared
    \/ Display

Spec == Init /\ [][Next]_vars

-----------------------------------------------------------------------------
(* What the properties below are stated with *)

FiniteC(z) == IsFinite(z.re) /\ IsFinite(z.im)

\* An operation on floats is exact when the real result is a value of the
\* format: nothing is rounded away, nothing overflows or underflows.
ExactAdd(x, y) ==
    IsFinite(x) /\ IsFinite(y) /\ Representable(Abs(Signed(x) + Signed(y)))

ExactSub(x, y) == ExactAdd(x, FNeg(y))

ExactMul(x, y) ==
    /\ IsFinite(x) /\ IsFinite(y)
    /\ (x.n * y.n) % Unit = 0
    /\ Representable((x.n * y.n) \div Unit)

ExactDiv(x, y) ==
    /\ IsFinite(x) /\ IsFinite(y) /\ y.n # 0
    /\ (x.n * Unit) % y.n = 0
    /\ Representable((x.n * Unit) \div y.n)

\* Every component operation of a + b is exact.
ExactCAdd(a, b) == ExactAdd(a.re, b.re) /\ ExactAdd(a.im, b.im)

\* Every component operation of a * b is exact.
ExactCMul(a, b) ==
    /\ ExactMul(a.re, b.re) /\ ExactMul(a.im, b.im)
    /\ ExactMul(a.re, b.im) /\ ExactMul(a.im, b.re)
    /\ ExactSub(FMul(a.re, b.re), FMul(a.im, b.im))
    /\ ExactAdd(FMul(a.re, b.im), FMul(a.im, b.re))

\* Every component operation of a / b is exact, and the denominator is not 0.
ExactCDiv(a, b) ==
    LET d == FAdd(FMul(b.re, b.re), FMul(b.im, b.im))
        nre == FAdd(FMul(a.re, b.re), FMul(a.im, b.im))
        nim == FSub(FMul(a.im, b.re), FMul(a.re, b.im))
    IN  /\ ExactMul(b.re, b.re) /\ ExactMul(b.im, b.im)
        /\ ExactAdd(FMul(b.re, b.re), FMul(b.im, b.im))
        /\ ExactMul(a.re, b.re) /\ ExactMul(a.im, b.im)
        /\ ExactAdd(FMul(a.re, b.re), FMul(a.im, b.im))
        /\ ExactMul(a.im, b.re) /\ ExactMul(a.re, b.im)
        /\ ExactSub(FMul(a.im, b.re), FMul(a.re, b.im))
        /\ ExactDiv(nre, d) /\ ExactDiv(nim, d)

\* The tolerance of a comparison "within the tolerance".  A tolerance is
\* chosen to suit the precision (1e-10 at binary64); whatever it is, it is
\* below the largest finite value, which is taken here: what is not within
\* this tolerance is within no tolerance.
Tolerance == Fin(0, MaxFiniteN)

\* x and y are equal, or differ by less than the tolerance.
Close(x, y) == FEq(x, y) \/ FLt(FAbs(FSub(x, y)), Tolerance)

CloseC(a, b) == Close(a.re, b.re) /\ Close(a.im, b.im)

-----------------------------------------------------------------------------
(* C1 *)

\* C1: the complex product a * b is exactly
\* (ar*br - ai*bi, ar*bi + ai*br) in the element type's arithmetic; where no
\* component operation rounds it is the product of the complex numbers; and
\* (2, 3) * (1, -1) = (5, 1).
C1_MulFormula ==
    cur.op = "mul" =>
        LET a == cur.lhs
            b == cur.rhs
        IN  /\ cur.res.re = FSub(FMul(a.re, b.re), FMul(a.im, b.im))
            /\ cur.res.im = FAdd(FMul(a.re, b.im), FMul(a.im, b.re))
            /\ ExactCMul(a, b) =>
                 /\ Signed(cur.res.re) * Unit
                      = Signed(a.re) * Signed(b.re) - Signed(a.im) * Signed(b.im)
                 /\ Signed(cur.res.im) * Unit
                      = Signed(a.re) * Signed(b.im) + Signed(a.im) * Signed(b.re)
            /\ (a = C(2, 3) /\ b = C(1, -1)) => cur.res = C(5, 1)

\* (2, 3) * (1, -1) has been computed, and is (5, 1).
C1_Witness ==
    cur.op = "mul" /\ cur.lhs = C(2, 3) /\ cur.rhs = C(1, -1) /\ cur.res = C(5, 1)

-----------------------------------------------------------------------------
(* C2 *)

\* C2: the quotient a / b is ((ar*br + ai*bi)/d, (ai*br - ar*bi)/d) with
\* d = br*br + bi*bi, the value magnitude_squared(b) returns; where no
\* component operation rounds it is the quotient of the complex numbers; and
\* (5, 1) / (1, -1) = (2, 3).
C2_DivFormula ==
    cur.op = "div" =>
        LET a == cur.lhs
            b == cur.rhs
            d == FAdd(FMul(b.re, b.re), FMul(b.im, b.im))
        IN  /\ d = magnitude_squared(b)
            /\ cur.res.re = FDiv(FAdd(FMul(a.re, b.re), FMul(a.im, b.im)), d)
            /\ cur.res.im = FDiv(FSub(FMul(a.im, b.re), FMul(a.re, b.im)), d)
            /\ ExactCDiv(a, b) =>
                 /\ Signed(cur.res.re) * (b.re.n * b.re.n + b.im.n * b.im.n)
                      = Unit * (Signed(a.re) * Signed(b.re) + Signed(a.im) * Signed(b.im))
                 /\ Signed(cur.res.im) * (b.re.n * b.re.n + b.im.n * b.im.n)
                      = Unit * (Signed(a.im) * Signed(b.re) - Signed(a.re) * Signed(b.im))
            /\ (a = C(5, 1) /\ b = C(1, -1)) => cur.res = C(2, 3)

\* (5, 1) / (1, -1) has been computed, and is (2, 3).
C2_Witness ==
    cur.op = "div" /\ cur.lhs = C(5, 1) /\ cur.rhs = C(1, -1) /\ cur.res = C(2, 3)

-----------------------------------------------------------------------------
(* C3 *)

\* The last two calls computed (a * b) / b.
MulThenDiv ==
    /\ prev.op = "mul" /\ cur.op = "div"
    /\ cur.lhs = prev.res /\ cur.rhs = prev.rhs

\* C3 as claimed: for every finite a and every finite b other than zero,
\* (a * b) / b equals a within the tolerance.
C3_Original ==
    (MulThenDiv /\ FiniteC(prev.lhs) /\ FiniteC(prev.rhs) /\ ~eq(prev.rhs, zero))
        => CloseC(cur.res, prev.lhs)

\* C3, amended: for every finite a and every finite b other than zero,
\* (a * b) / b equals a whenever every component operation of the product
\* and of the quotient is exact.
C3_DivUndoesExactMul ==
    (/\ MulThenDiv /\ FiniteC(prev.lhs) /\ FiniteC(prev.rhs) /\ ~eq(prev.rhs, zero)
     /\ ExactCMul(prev.lhs, prev.rhs)
     /\ ExactCDiv(mul(prev.lhs, prev.rhs), prev.rhs))
        => eq(cur.res, prev.lhs)

\* ((2, 3) * (1, -1)) / (1, -1) has been computed, every step exact.
C3_Witness ==
    /\ MulThenDiv /\ prev.lhs = C(2, 3) /\ prev.rhs = C(1, -1)
    /\ ExactCMul(prev.lhs, prev.rhs)
    /\ ExactCDiv(prev.res, prev.rhs)
    /\ cur.res = C(2, 3)

-----------------------------------------------------------------------------
(* C4 *)

\* C4: dividing any complex value by zero() returns a Complex, of which at
\* least one component is NaN or infinite.
C4_DivByZeroNotFinite ==
    (cur.op = "div" /\ cur.rhs = zero) =>
        /\ cur.res.re \in Floats /\ cur.res.im \in Floats
        /\ (IsNaN(cur.res.re) \/ IsInfinite(cur.res.re)
              \/ IsNaN(cur.res.im) \/ IsInfinite(cur.res.im))

\* A finite value other than zero has been divided by zero().
C4_Witness ==
    /\ cur.op = "div" /\ cur.rhs = zero /\ cur.lhs = C(2, 3)
    /\ IsNaN(cur.res.re) /\ IsNaN(cur.res.im)

-----------------------------------------------------------------------------
(* C5 *)

\* x is below zero: neither a zero of either sign nor NaN.
Negative(x) == (IsInfinite(x) /\ x.sgn = 1) \/ (IsFinite(x) /\ x.sgn = 1 /\ x.n > 0)

\* C5: the text of z is "{re} - {|im|}i" exactly when im < 0 and
\* "{re} + {|im|}i" in every other case (im > 0, +0, -0, NaN), the imaginary
\* part printed as its absolute value; (1, 2) is "1 + 2i", (1, -2) is
\* "1 - 2i", and (1, 0), (1, -0) and (1, NaN) take the '+'.
C5_DisplaySeparator ==
    cur.op = "fmt" =>
        LET z == cur.lhs
        IN  /\ cur.text = FmtFloat(z.re)
                            \o (IF Negative(z.im) THEN " - " ELSE " + ")
                            \o FmtFloat(FAbs(z.im)) \o "i"
            /\ z = C(1, 2) => cur.text = "1 + 2i"
            /\ z = C(1, -2) => cur.text = "1 - 2i"
            /\ z = C(1, 0) => cur.text = "1 + 0i"
            /\ z = new(FOne, Fin(1, 0)) => cur.text = "1 + 0i"
            /\ z = new(FOne, NaN) => cur.text = "1 + NaNi"
            /\ z = new(Lit(5, 2), Lit(-7, 1)) => cur.text = "2.5 - 7i"

\* A value with a negative-zero imaginary part has been formatted, with '+'.
C5_Witness ==
    /\ cur.op = "fmt"
    /\ cur.lhs = new(FOne, Fin(1, 0))
    /\ cur.text = "1 + 0i"

-----------------------------------------------------------------------------
(* C6 *)

\* The last two calls computed a * conjugate(a).
ConjugateThenMul ==
    /\ prev.op = "conjugate" /\ cur.op = "mul"
    /\ cur.lhs = prev.lhs /\ cur.rhs = prev.res

\* C6 as claimed: for every finite a, a * conjugate(a) is
\* (magnitude_squared(a), 0), within the tolerance.
C6_Original ==
    (ConjugateThenMul /\ FiniteC(cur.lhs))
        => CloseC(cur.res, new(magnitude_squared(cur.lhs), FZero))

\* C6, amended: conjugate(a) is (a.re, -a.im), and for every finite a the
\* real part of a * conjugate(a) equals magnitude_squared(a) = re*re + im*im;
\* the imaginary part is zero when the product re*im is finite, and NaN when
\* it overflows.
C6_ConjugateNorm ==
    (ConjugateThenMul /\ FiniteC(cur.lhs)) =>
        LET a == cur.lhs
        IN  /\ prev.res = new(a.re, FNeg(a.im))
            /\ FEq(cur.res.re, magnitude_squared(a))
            /\ FEq(cur.res.re, FAdd(FMul(a.re, a.re), FMul(a.im, a.im)))
            /\ IsFinite(FMul(a.re, a.im)) => FEq(cur.res.im, FZero)
            /\ ~IsFinite(FMul(a.re, a.im)) => IsNaN(cur.res.im)
            /\ a = C(3, -4) => (prev.res = C(3, 4) /\ cur.res = C(25, 0))

\* (3, -4) * conjugate((3, -4)) has been computed: (25, 0).
C6_Witness ==
    /\ ConjugateThenMul /\ cur.lhs = C(3, -4)
    /\ prev.res = C(3, 4) /\ cur.res = C(25, 0)

-----------------------------------------------------------------------------
(* C7 *)

\* The last two calls computed (a + b) + c.
AddThenAdd == prev.op = "add" /\ cur.op = "add" /\ cur.lhs = prev.res

\* The last two calls computed (a * b) * c.
MulThenMul == prev.op = "mul" /\ cur.op = "mul" /\ cur.lhs = prev.res

AllFinite == FiniteC(prev.lhs) /\ FiniteC(prev.rhs) /\ FiniteC(cur.rhs)

\* C7 as claimed: for all finite a, b, c, (a + b) + c equals a + (b + c) and
\* (a * b) * c equals a * (b * c), within the tolerance.
C7_Original ==
    /\ (AddThenAdd /\ AllFinite)
          => CloseC(cur.res, add(prev.lhs, add(prev.rhs, cur.rhs)))
    /\ (MulThenMul /\ AllFinite)
          => CloseC(cur.res, mul(prev.lhs, mul(prev.rhs, cur.rhs)))

\* C7, amended: for all finite a, b, c, (a + b) + c equals a + (b + c), and
\* (a * b) * c equals a * (b * c), whenever every component operation of
\* both groupings is exact.
C7_AssociativeWhenExact ==
    LET a == prev.lhs
        b == prev.rhs
        c == cur.rhs
    IN  /\ (/\ AddThenAdd /\ AllFinite
            /\ ExactCAdd(a, b) /\ ExactCAdd(add(a, b), c)
            /\ ExactCAdd(b, c) /\ ExactCAdd(a, add(b, c)))
              => eq(cur.res, add(a, add(b, c)))
        /\ (/\ MulThenMul /\ AllFinite
            /\ ExactCMul(a, b) /\ ExactCMul(mul(a, b), c)
            /\ ExactCMul(b, c) /\ ExactCMul(a, mul(b, c)))
              => eq(cur.res, mul(a, mul(b, c)))

\* ((2, 3) * (1, -1)) * (2, -1) has been computed, every step of both
\* groupings exact: (11, -3).
C7_Witness ==
    /\ MulThenMul /\ prev.lhs = C(2, 3) /\ prev.rhs = C(1, -1) /\ cur.rhs = C(2, -1)
    /\ ExactCMul(prev.lhs, prev.rhs) /\ ExactCMul(prev.res, cur.rhs)
    /\ ExactCMul(prev.rhs, cur.rhs) /\ ExactCMul(prev.lhs, mul(prev.rhs, cur.rhs))
    /\ cur.res = C(11, -3)

-----------------------------------------------------------------------------
(* C8 *)

\* sqrt(x) is exact: the float r squared is x.
ExactSqrt(x, r) == IsFinite(x) /\ IsFinite(r) /\ r.n * r.n = x.n * Unit

\* C8 as claimed: norm(z) is the square root of magnitude_squared(z), so
\* norm(z)^2 = magnitude_squared(z) (stated here for finite z only).
C8_Original ==
    (cur.op = "norm" /\ FiniteC(cur.lhs)) =>
        /\ cur.val = FSqrt(magnitude_squared(cur.lhs))
        /\ FEq(FMul(cur.val, cur.val), magnitude_squared(cur.lhs))

\* C8, amended: norm(z) is the square root of magnitude_squared(z) for every
\* z, both computing re*re + im*im with no scaling; norm(z)^2 equals
\* magnitude_squared(z) when that square root is exact; norm((3, 4)) = 5 and
\* magnitude_squared((3, 4)) = 25.
C8_NormIsSqrt ==
    LET z == cur.lhs
        m == FAdd(FMul(z.re, z.re), FMul(z.im, z.im))
    IN  /\ cur.op = "magnitude_squared" =>
              /\ cur.val = m
              /\ z = C(3, 4) => cur.val = Lit(25, 1)
        /\ cur.op = "norm" =>
              /\ cur.val = FSqrt(magnitude_squared(z))
              /\ cur.val = FSqrt(m)
              /\ ExactSqrt(m, cur.val) => FEq(FMul(cur.val, cur.val), m)
              /\ z = C(3, 4) => cur.val = Lit(5, 1)

\* norm((3, 4)) has been computed: 5, an exact square root.
C8_Witness ==
    /\ cur.op = "norm" /\ cur.lhs = C(3, 4) /\ cur.val = Lit(5, 1)
    /\ ExactSqrt(magnitude_squared(cur.lhs), cur.val)

-----------------------------------------------------------------------------
(* C9 *)

\* The last two calls computed a + (-a).
NegThenAdd ==
    /\ prev.op = "neg" /\ cur.op = "add"
    /\ cur.lhs = prev.lhs /\ cur.rhs = prev.res

\* C9: -a is (-a.re, -a.im), -(2.5, -7) is (-2.5, 7), and for every finite a,
\* a + (-a) is zero().
C9_AdditiveInverse ==
    /\ cur.op = "neg" =>
          /\ cur.res = new(FNeg(cur.lhs.re), FNeg(cur.lhs.im))
          /\ cur.lhs = new(Lit(5, 2), Lit(-7, 1))
                => cur.res = new(Lit(-5, 2), Lit(7, 1))
    /\ (NegThenAdd /\ FiniteC(cur.lhs)) => (cur.res = zero /\ eq(cur.res, zero))

\* (2.5, -7) + (-(2.5, -7)) has been computed: zero.
C9_Witness ==
    /\ NegThenAdd /\ cur.lhs = new(Lit(5, 2), Lit(-7, 1))
    /\ cur.rhs = new(Lit(-5, 2), Lit(7, 1)) /\ cur.res = zero

-----------------------------------------------------------------------------
(* C10 *)

\* C10: for every finite z and finite scalar s, z * s is (z.re*s, z.im*s),
\* and equals (as PartialEq compares) the complex product z * new(s, 0).
C10_ScalarAgreesWithComplex ==
    (cur.op = "mul_scalar" /\ FiniteC(cur.lhs) /\ IsFinite(cur.s)) =>
        /\ cur.res = new(FMul(cur.lhs.re, cur.s), FMul(cur.lhs.im, cur.s))
        /\ eq(cur.res, mul(cur.lhs, new(cur.s, FZero)))

\* (2.5, -7) * -0.5 has been computed: (-1.25, 3.5), as the complex product.
C10_Witness ==
    /\ cur.op = "mul_scalar" /\ cur.lhs = new(Lit(5, 2), Lit(-7, 1))
    /\ cur.s = Lit(-1, 2)
    /\ cur.res = new(Lit(-5, 4), Lit(7, 2))
    /\ eq(cur.res, mul(cur.lhs, new(cur.s, FZero)))

=============================================================================
